---- MODULE Spec2Model ----
(***************************************************************************)
(* Model of the render driver of include/Render.hpp: Render::renderImage,  *)
(* its sequential loop (renderImageCPU) and its nested tbb::parallel_for   *)
(* (renderImageTBB), the z-buffer scan over the spheres and the write of   *)
(* the shaded pixel into the Image, followed by Image::saveToBmp.          *)
(*                                                                         *)
(* Floating point values are kept symbolic: a ray is the pair of integer   *)
(* pixel offsets together with the integer divisor width/2 of `step`, an   *)
(* intersection point is the pair (ray, distance), a color is the term     *)
(* calcColor was applied to.  Equal terms denote equal doubles.            *)
(***************************************************************************)
EXTENDS Integers, Sequences, FiniteSets, TLC

VARIABLES
    objs,          \* Render::objs, the sphere list (read only during a call)
    nanHit,        \* whether the spheres report a hit for the all-NaN ray
    width, height, \* the arguments of renderImage
    pc,            \* position of the calling thread
    mode,          \* the RenderMode argument of the current / last call
    result,        \* what the caller of renderImage observed
    cerr,          \* TRUE when the call wrote a line to std::cerr
    img,           \* the local Image of the render call
    step,          \* the local double `step`
    ci, cj,        \* loop indices of renderImageCPU
    outerPending,  \* sub-ranges of [0,width) not yet given to a body
    outerRun,      \* running invocations of the outer lambda
    inner,         \* per column i: the nested parallel_for over [0,height)
    outerExc,      \* the outer parallel_for has captured an exception
    thrown,        \* a pixel computation raised an error in this call
    scanned,       \* history: one record per executed pixel body
    wlog,          \* history: the setPixel calls of this call
    wcount,        \* history: number of setPixel calls per cell
    saveRes,       \* outcome of Image::saveToBmp in this call
    file           \* the image last persisted at `path`, with the mode that did it

vars == <<objs, nanHit, width, height, pc, mode, result, cerr, img, step, ci, cj,
          outerPending, outerRun, inner, outerExc, thrown, scanned, wlog, wcount,
          saveRes, file>>

-----------------------------------------------------------------------------
(* Bounds of the model *)

\* largest number of pixels width*height of a rendered image
MaxPixels == 4
\* largest number of spheres in the scene
MaxObjs == 2

-----------------------------------------------------------------------------
(* Values *)

None == "none"
NullSphere == 0
\* the value of a cell of a fresh Image
Background == <<"background">>
NoImage == <<>>
\* the ray whose direction has only NaN components
NaNRay == [x |-> 0, y |-> 0, div |-> 0]
\* the result of intersection without a value in its optional
NoHit == [has |-> FALSE, first |-> 0, second |-> <<>>]
NoFile == [by |-> None, pix |-> <<>>]
NoColor == <<"no-color">>

\* std::numeric_limits<double>::max(), larger than every distance of the model
DBL_MAX == 1000000

\* enum struct RenderMode { CPU, TBB }; any other value of the underlying int
\* can be passed with a cast and reaches the default label
CPU == "CPU"
TBB == "TBB"
Other == "other"

\* The camera and the lights are read only; they only feed symbolic terms.
camera == [pos |-> "camera.pos", screenCenter |-> "camera.screenCenter",
           up |-> "camera.up", fov |-> "camera.fov"]
lights == <<"light0", "light1">>

\* The spheres a scene is built from.  A sphere has a centre (in units of the
\* screen step right / up of the screen centre), a radius and a distance
\* of its centre from the camera.
SphereA == [cx |-> 0, cy |-> 0, r |-> 1, depth |-> 3]
SphereB == [cx |-> -1, cy |-> 0, r |-> 1, depth |-> 3]
Spheres == {SphereA, SphereB}

RECURSIVE SeqsUpTo(_, _)
SeqsUpTo(S, n) ==
    IF n = 0 THEN {<<>>}
    ELSE LET shorter == SeqsUpTo(S, n - 1)
         IN shorter \cup {Append(q, s) : q \in {p \in shorter : Len(p) = n - 1}, s \in S}

Abs(a) == IF a < 0 THEN -a ELSE a

Cells == (0 .. width - 1) \X (0 .. height - 1)

-----------------------------------------------------------------------------
(* Sphere::intersection (Obj.hpp), from its contract: none, or the distance *)
(* of the nearest intersection in front of the origin and its point.        *)

\* The answer to the all-NaN ray is not fixed by the contract: the scene
\* either reports no hit for it or a hit at the distance of the centre.
NanResult(s) ==
    IF nanHit THEN [has |-> TRUE, first |-> s.depth, second |-> <<NaNRay, s.depth>>]
    ELSE NoHit

\* k is the 1-based position of the sphere in objs
intersection(k, ray) ==
    IF ray = NaNRay THEN NanResult(objs[k])
    ELSE LET s == objs[k]
             man == Abs(ray.x - s.cx * ray.div) + Abs(ray.y - s.cy * ray.div)
         IN IF man <= s.r * ray.div
            THEN [has |-> TRUE, first |-> (s.depth - s.r) * ray.div + man,
                  second |-> <<ray, (s.depth - s.r) * ray.div + man>>]
            ELSE NoHit


-----------------------------------------------------------------------------
(* Pure parts of the pixel body *)

\* double step = tan(fov/2) * |centralRay| / (width / 2): the divisor is an int
\* division; a zero divisor makes step infinite
StepOf(w) == [num |-> "tan(fov/2)*|centralRay|", den |-> w \div 2]

\* pointOnScreen = screenCenter + x*step*screenRight + y*step*screenUp and the
\* normalized direction from camera.pos: with an infinite step x*step is NaN or
\* infinite and every component of the direction is NaN
MkRay(x, y, st) == IF st.den = 0 THEN NaNRay ELSE [x |-> x, y |-> y, div |-> st.den]

\* if (res.first < z_buffor), mutated to keep the last of several equal hits
CloserOrEqual(d, z) == d <= z
\* if (res.first < z_buffor)
Closer(d, z) == d < z

\* the loop for (size_t i = 0; i < objs.size(); i++) from position k on
RECURSIVE ScanFrom(_, _, _)
ScanFrom(k, ray, acc) ==
    IF k > Len(objs) THEN acc
    ELSE LET res == intersection(k, ray)
         IN IF res.has /\ Closer(res.first, acc.z_buffor)
            THEN ScanFrom(k + 1, ray, [z_buffor |-> res.first, nearestSphere |-> k,
                                       sectionPoint |-> res.second, idx |-> k])
            ELSE ScanFrom(k + 1, ray, [acc EXCEPT !.idx = k])

\* z_buffor = max, nearestSphere = nullptr, sectionPoint uninitialized
Scan(ray) ==
    ScanFrom(1, ray, [z_buffor |-> DBL_MAX, nearestSphere |-> NullSphere,
                      sectionPoint |-> <<>>, idx |-> 0])

\* Render::calcColor: ambient term plus one diffuse and specular term per light,
\* a pure function of its four arguments
calcColor(sectionPoint, cameraPos, nearestSphere, ls) ==
    <<"color", objs[nearestSphere], sectionPoint, cameraPos, ls>>

\* Pixel(c): the conversion of a Color to the sink's pixel
Pixel(c) == <<"pixel", c>>

\* if (nearestSphere != nullptr), mutated to write every pixel
AlwaysWrite(n) == TRUE
\* if (nearestSphere != nullptr)
HasNearest(n) == n # NullSphere

\* img.setPixel(i, j, ...) with the column taken from the index of the sphere scan
CellOfScanIndex(i, j, k) == <<k - 1, j>>
\* img.setPixel(i, j, ...): the i in scope is the pixel column
WriteCell(i, j, k) == <<i, j>>

\* int x = i - width / 2; int y = j - height / 2 (renderImageCPU)
XOffsetCPU(i) == i - width \div 2
YOffsetCPU(j) == j - height \div 2

\* int x = i - width / 2 (renderImageTBB)
XOffsetTBB(i) == i - width \div 2
\* y computed from the width instead of the height
YOffsetFromWidth(j) == j - width \div 2
\* int y = j - height / 2 (renderImageTBB)
YOffsetTBB(j) == j - height \div 2

\* the body of the pixel loop, given the ray: scan, test, shade
Shade(i, j, ray, by) ==
    LET hit == Scan(ray)
        wr == HasNearest(hit.nearestSphere)
    IN [px |-> <<i, j>>, ray |-> ray, nearest |-> hit.nearestSphere, z |-> hit.z_buffor,
        wrote |-> wr, by |-> by,
        cell |-> WriteCell(i, j, hit.idx),
        color |-> IF hit.nearestSphere # NullSphere
                  THEN calcColor(hit.sectionPoint, camera.pos, hit.nearestSphere, lights)
                  ELSE NoColor]

BodyCPU(i, j) == Shade(i, j, MkRay(XOffsetCPU(i), YOffsetCPU(j), step), "main")
BodyTBB(i, j, by) == Shade(i, j, MkRay(XOffsetTBB(i), YOffsetTBB(j), step), by)

\* Image::setPixel
setPixel(image, cell, color) ==
    IF cell \in DOMAIN image THEN [image EXCEPT ![cell] = Pixel(color)] ELSE image

\* the effect of one pixel body on the image and on the history
ApplyBody(b) ==
    /\ img' = IF b.wrote THEN setPixel(img, b.cell, b.color) ELSE img
    /\ scanned' = scanned \cup {[px |-> b.px, ray |-> b.ray, nearest |-> b.nearest,
                                 z |-> b.z, wrote |-> b.wrote]}
    /\ wlog' = IF b.wrote
               THEN wlog \cup {[cell |-> b.cell, px |-> b.px, by |-> b.by, color |-> b.color]}
               ELSE wlog
    /\ wcount' = IF b.wrote /\ b.cell \in DOMAIN wcount
                 THEN [wcount EXCEPT ![b.cell] = @ + 1] ELSE wcount

-----------------------------------------------------------------------------
(* Initial state: a Render object over a scene, before any call *)

NoInner == [pending |-> {}, run |-> {}, exc |-> FALSE]

Init ==
    /\ width \in 1 .. MaxPixels
    /\ height \in 1 .. MaxPixels
    /\ width * height <= MaxPixels
    /\ objs \in SeqsUpTo(Spheres, MaxObjs)
    /\ nanHit \in IF width \div 2 = 0 /\ objs # <<>> THEN BOOLEAN ELSE {FALSE}
    /\ pc = "idle"
    /\ mode = None
    /\ result = None
    /\ cerr = FALSE
    /\ img = NoImage
    /\ step = StepOf(width)
    /\ ci = 0
    /\ cj = 0
    /\ outerPending = {}
    /\ outerRun = {}
    /\ inner = [i \in 0 .. width - 1 |-> NoInner]
    /\ outerExc = FALSE
    /\ thrown = FALSE
    /\ scanned = {}
    /\ wlog = {}
    /\ wcount = [c \in Cells |-> 0]
    /\ saveRes = None
    /\ file = NoFile

-----------------------------------------------------------------------------
(* Render::renderImage and the prologue of the two render functions *)

\* Image img(width, height); ...; double step = ...
Prologue(m) ==
    /\ pc = "idle"
    /\ mode' = m
    /\ result' = None
    /\ cerr' = FALSE
    /\ img' = [c \in Cells |-> Background]
    /\ step' = StepOf(width)
    /\ thrown' = FALSE
    /\ scanned' = {}
    /\ wlog' = {}
    /\ wcount' = [c \in Cells |-> 0]
    /\ saveRes' = None
    /\ outerExc' = FALSE
    /\ inner' = [i \in 0 .. width - 1 |-> NoInner]
    /\ UNCHANGED <<objs, nanHit, width, height, file>>

\* case RenderMode::CPU
CallCPU ==
    /\ Prologue(CPU)
    /\ pc' = "cpu"
    /\ ci' = 0
    /\ cj' = 0
    /\ UNCHANGED <<outerPending, outerRun>>

\* case RenderMode::TBB: the outer parallel_for receives the range [0,width)
CallTBB ==
    /\ Prologue(TBB)
    /\ pc' = "tbb"
    /\ outerPending' = {<<0, width>>}
    /\ outerRun' = {}
    /\ UNCHANGED <<ci, cj>>

\* default: std::cerr << "Not implemented yet"; break; and the function returns
CallOther ==
    /\ pc = "idle"
    /\ mode' = Other
    /\ cerr' = TRUE
    /\ result' = "returned"
    /\ saveRes' = None
    /\ thrown' = FALSE
    /\ UNCHANGED <<objs, nanHit, width, height, pc, img, step, ci, cj, outerPending,
                   outerRun, inner, outerExc, scanned, wlog, wcount, file>>

-----------------------------------------------------------------------------
(* renderImageCPU *)

\* one iteration of the inner for loop
StepCPU ==
    /\ pc = "cpu"
    /\ ci < width
    /\ cj < height
    /\ ApplyBody(BodyCPU(ci, cj))
    /\ IF cj + 1 < height
       THEN cj' = cj + 1 /\ ci' = ci
       ELSE cj' = 0 /\ ci' = ci + 1
    /\ UNCHANGED <<objs, nanHit, width, height, pc, mode, result, cerr, step,
                   outerPending, outerRun, inner, outerExc, thrown, saveRes, file>>

\* i < width fails: the loops are left and saveToBmp is next
EndLoopCPU ==
    /\ pc = "cpu"
    /\ ci >= width
    /\ pc' = "save"
    /\ UNCHANGED <<objs, nanHit, width, height, mode, result, cerr, img, step, ci, cj,
                   outerPending, outerRun, inner, outerExc, thrown, scanned, wlog,
                   wcount, saveRes, file>>


-----------------------------------------------------------------------------
(* renderImageTBB: tbb::parallel_for over blocked_range<int>(0, width), and  *)
(* in its body, per column i, a parallel_for over blocked_range<int>(0,      *)
(* height).  A range is split into sub-ranges, every sub-range is given to   *)
(* one invocation of the body, invocations run concurrently, and             *)
(* parallel_for returns when all of them have ended.                         *)

\* the points a range <<begin, end>> can be split at
SplitPoints(r) == (r[1] + 1) .. (r[2] - 1)

\* for (int i = r.begin(); ...
OuterFirst(r) == r[1]

\* the inner loop started at 0 instead of r2.begin()
InnerFirstZero(r2) == 0
\* for (int j = r2.begin(); ...
InnerFirst(r2) == r2[1]

\* the exception captured by a parallel_for, lost instead of rethrown
Swallowed(exc) == FALSE
\* a parallel_for rethrows, after its tasks have ended, the exception it captured
Captured(exc) == exc

\* the nested parallel_for of column i has no sub-range left to run
InnerJoined(i) == inner[i].pending = {} /\ inner[i].run = {}

\* the join of the outer loop taken while invocations of the body still run
OuterJoinedEarly == outerPending = {}
\* the outer parallel_for has no sub-range left to run
OuterJoined == outerPending = {} /\ outerRun = {}

StartedInner == [pending |-> {<<0, height>>}, run |-> {}, exc |-> FALSE]

\* a sub-range of [0,width) is split in two
SplitOuter ==
    /\ pc = "tbb"
    /\ \E r \in outerPending : \E m \in SplitPoints(r) :
          outerPending' = (outerPending \ {r}) \cup {<<r[1], m>>, <<m, r[2]>>}
    /\ UNCHANGED <<objs, nanHit, width, height, pc, mode, result, cerr, img, step, ci, cj,
                   outerRun, inner, outerExc, thrown, scanned, wlog, wcount, saveRes, file>>

\* a worker invokes the outer lambda on a sub-range; its first column starts
\* the nested parallel_for
StartOuter ==
    /\ pc = "tbb"
    /\ \E r \in outerPending :
          /\ outerPending' = outerPending \ {r}
          /\ outerRun' = outerRun \cup {[lo |-> r[1], hi |-> r[2], i |-> OuterFirst(r)]}
          /\ inner' = [inner EXCEPT ![OuterFirst(r)] = StartedInner]
    /\ UNCHANGED <<objs, nanHit, width, height, pc, mode, result, cerr, img, step, ci, cj,
                   outerExc, thrown, scanned, wlog, wcount, saveRes, file>>

\* a sub-range of [0,height) of column i is split in two
SplitInner ==
    /\ \E i \in DOMAIN inner : \E r \in inner[i].pending : \E m \in SplitPoints(r) :
          inner' = [inner EXCEPT ![i].pending = (@ \ {r}) \cup {<<r[1], m>>, <<m, r[2]>>}]
    /\ UNCHANGED <<objs, nanHit, width, height, pc, mode, result, cerr, img, step, ci, cj,
                   outerPending, outerRun, outerExc, thrown, scanned, wlog, wcount,
                   saveRes, file>>

\* a worker invokes the inner lambda on a sub-range of column i
StartInner ==
    /\ \E i \in DOMAIN inner : \E r \in inner[i].pending :
          inner' = [inner EXCEPT ![i].pending = @ \ {r},
                                 ![i].run = @ \cup {[lo |-> r[1], hi |-> r[2],
                                                     j |-> InnerFirst(r)]}]
    /\ UNCHANGED <<objs, nanHit, width, height, pc, mode, result, cerr, img, step, ci, cj,
                   outerPending, outerRun, outerExc, thrown, scanned, wlog, wcount,
                   saveRes, file>>

\* one iteration of the loop over j of an inner invocation
StepTBB ==
    /\ \E i \in DOMAIN inner : \E t \in inner[i].run :
          /\ ApplyBody(BodyTBB(i, t.j, <<i, t.lo>>))
          /\ inner' = [inner EXCEPT ![i].run =
                          IF t.j + 1 < t.hi
                          THEN (@ \ {t}) \cup {[t EXCEPT !.j = t.j + 1]}
                          ELSE @ \ {t}]
    /\ UNCHANGED <<objs, nanHit, width, height, pc, mode, result, cerr, step, ci, cj,
                   outerPending, outerRun, outerExc, thrown, saveRes, file>>

\* the nested parallel_for of an outer invocation returns: ++i, and either the
\* next column starts its own parallel_for or the invocation ends
JoinInner ==
    /\ \E t \in outerRun :
          /\ InnerJoined(t.i)
          /\ ~Captured(inner[t.i].exc)
          /\ IF t.i + 1 < t.hi
             THEN /\ outerRun' = (outerRun \ {t}) \cup {[t EXCEPT !.i = t.i + 1]}
                  /\ inner' = [inner EXCEPT ![t.i] = NoInner, ![t.i + 1] = StartedInner]
             ELSE /\ outerRun' = outerRun \ {t}
                  /\ inner' = [inner EXCEPT ![t.i] = NoInner]
    /\ UNCHANGED <<objs, nanHit, width, height, pc, mode, result, cerr, img, step, ci, cj,
                   outerPending, outerExc, thrown, scanned, wlog, wcount, saveRes, file>>

\* the outer parallel_for returns and saveToBmp is next
JoinOuter ==
    /\ pc = "tbb"
    /\ OuterJoined
    /\ ~Captured(outerExc)
    /\ pc' = "save"
    /\ UNCHANGED <<objs, nanHit, width, height, mode, result, cerr, img, step, ci, cj,
                   outerPending, outerRun, inner, outerExc, thrown, scanned, wlog,
                   wcount, saveRes, file>>

-----------------------------------------------------------------------------
(* Image::saveToBmp and the return to the caller *)

\* the image leaves the call, its history is dropped
Leave ==
    /\ pc' = "idle"
    /\ img' = NoImage
    /\ step' = StepOf(width)
    /\ ci' = 0
    /\ cj' = 0
    /\ scanned' = {}
    /\ wlog' = {}
    /\ wcount' = [c \in Cells |-> 0]

\* img.saveToBmp(path) succeeds; the void function returns
SaveOk ==
    /\ pc = "save"
    /\ file' = [by |-> mode, pix |-> img]
    /\ saveRes' = "ok"
    /\ result' = "returned"
    /\ Leave
    /\ UNCHANGED <<objs, nanHit, width, height, mode, cerr, outerPending, outerRun,
                   inner, outerExc, thrown>>

\* img.saveToBmp(path) fails; its outcome is discarded and the void function returns
SaveFail ==
    /\ pc = "save"
    /\ saveRes' = "fail"
    /\ result' = "returned"
    /\ Leave
    /\ UNCHANGED <<objs, nanHit, width, height, mode, cerr, outerPending, outerRun,
                   inner, outerExc, thrown, file>>

-----------------------------------------------------------------------------
(* An error raised by the computation of one pixel.  Neither render function *)
(* has a handler.  In renderImageCPU the exception leaves the loops, the      *)
(* function and renderImage.  A parallel_for captures the first exception of  *)
(* its body, cancels its task group (sub-ranges not yet started are dropped,  *)
(* running invocations run to their end, nested groups are cancelled with     *)
(* it) and rethrows in the thread that called it once all tasks have ended.   *)

\* the pixel body of the sequential loop throws
ThrowCPU ==
    /\ pc = "cpu"
    /\ ci < width
    /\ thrown' = TRUE
    /\ result' = "exception"
    /\ Leave
    /\ UNCHANGED <<objs, nanHit, width, height, mode, cerr, outerPending, outerRun,
                   inner, outerExc, saveRes, file>>

\* the pixel body of an inner invocation throws: the invocation ends and the
\* nested parallel_for of its column captures the exception
ThrowTBB ==
    /\ \E i \in DOMAIN inner : \E t \in inner[i].run :
          inner' = [inner EXCEPT ![i].run = @ \ {t}, ![i].exc = TRUE]
    /\ thrown' = TRUE
    /\ UNCHANGED <<objs, nanHit, width, height, pc, mode, result, cerr, img, step, ci, cj,
                   outerPending, outerRun, outerExc, scanned, wlog, wcount, saveRes, file>>

\* a sub-range of a cancelled nested parallel_for is dropped
CancelInner ==
    /\ \E i \in DOMAIN inner : \E r \in inner[i].pending :
          /\ inner[i].exc \/ outerExc
          /\ inner' = [inner EXCEPT ![i].pending = @ \ {r}]
    /\ UNCHANGED <<objs, nanHit, width, height, pc, mode, result, cerr, img, step, ci, cj,
                   outerPending, outerRun, outerExc, thrown, scanned, wlog, wcount,
                   saveRes, file>>

\* the nested parallel_for rethrows in the outer invocation, which ends by the
\* exception; the outer parallel_for captures it
RethrowInner ==
    /\ \E t \in outerRun :
          /\ InnerJoined(t.i)
          /\ Captured(inner[t.i].exc)
          /\ outerRun' = outerRun \ {t}
          /\ inner' = [inner EXCEPT ![t.i] = NoInner]
    /\ outerExc' = TRUE
    /\ UNCHANGED <<objs, nanHit, width, height, pc, mode, result, cerr, img, step, ci, cj,
                   outerPending, thrown, scanned, wlog, wcount, saveRes, file>>

\* a sub-range of the cancelled outer parallel_for is dropped
CancelOuter ==
    /\ outerExc
    /\ \E r \in outerPending : outerPending' = outerPending \ {r}
    /\ UNCHANGED <<objs, nanHit, width, height, pc, mode, result, cerr, img, step, ci, cj,
                   outerRun, inner, outerExc, thrown, scanned, wlog, wcount, saveRes, file>>

\* the outer parallel_for rethrows in renderImageTBB; the exception leaves it
\* and renderImage, saveToBmp is not reached
RethrowOuter ==
    /\ pc = "tbb"
    /\ OuterJoined
    /\ Captured(outerExc)
    /\ result' = "exception"
    /\ Leave
    /\ UNCHANGED <<objs, nanHit, width, height, mode, cerr, outerPending, outerRun,
                   inner, outerExc, thrown, saveRes, file>>

-----------------------------------------------------------------------------

Next ==
    \/ CallCPU
    \/ CallTBB
    \/ CallOther
    \/ StepCPU
    \/ EndLoopCPU
    \/ SplitOuter
    \/ StartOuter
    \/ SplitInner
    \/ StartInner
    \/ StepTBB
    \/ JoinInner
    \/ JoinOuter
    \/ SaveOk
    \/ SaveFail

Spec == Init /\ [][Next]_vars

\* the program with errors raised inside pixel computations
NextErr ==
    \/ Next
    \/ ThrowCPU
    \/ ThrowTBB
    \/ CancelInner
    \/ RethrowInner
    \/ CancelOuter
    \/ RethrowOuter

\* error propagation does not depend on the spheres: scenes of at most one
InitErr == Init /\ Len(objs) <= 1

SpecErr == InitErr /\ [][NextErr]_vars

-----------------------------------------------------------------------------
(* Properties *)

InCall == pc \in {"cpu", "tbb", "save"}

\* the ray of pixel (i,j), from the formulas of the ray generator
RayAt(c) ==
    IF width \div 2 = 0 THEN NaNRay
    ELSE [x |-> c[1] - width \div 2, y |-> c[2] - height \div 2, div |-> width \div 2]

\* what every sphere of the list answers to the ray
Answers(ray) == [k \in 1 .. Len(objs) |-> intersection(k, ray)]

\* the spheres whose answer has a value
HitSet(t) == {k \in DOMAIN t : t[k].has}

\* k reports the least distance and is the earliest sphere that does
IsNearest(k, t) ==
    /\ k \in HitSet(t)
    /\ \A m \in HitSet(t) :
          /\ t[k].first <= t[m].first
          /\ t[m].first = t[k].first => k <= m

\* the ray of the pixel misses every sphere
Misses(c) == HitSet(Answers(RayAt(c))) = {}

Written(c) == wcount[c] > 0

\* C1: a render that reaches its save while the file holds the image saved by
\* a render of the same scene and size in the other mode is about to save an
\* image equal to it in every cell, under every schedule of the workers.
C1_ModesAgree ==
    (pc = "save" /\ file.by \in {CPU, TBB} /\ file.by # mode) => img = file.pix

C1_Witness ==
    /\ pc = "save"
    /\ mode = TBB
    /\ file.by = CPU
    /\ width >= 2
    /\ height >= 2
    /\ \E c \in Cells : Written(c)
    /\ \E c \in Cells : ~Written(c)

\* C2: a call with an unrecognized mode ends with an error reported to the
\* caller, distinguishable from the return of a successful render, and without
\* a save.
C2_UnknownModeReported ==
    (pc = "idle" /\ mode = Other) => (result # "returned" /\ saveRes = None)

\* C3: when saveToBmp fails, the caller of renderImage observes an outcome that
\* differs from the one of a successful save.
C3_SaveFailureSurfaced ==
    (pc = "idle" /\ saveRes = "fail") => result # "returned"

\* C4: in the data-parallel mode every cell is written at most once during a
\* call, and by at most one worker.
C4_WrittenOnce ==
    mode = TBB =>
        /\ \A c \in Cells : wcount[c] <= 1
        /\ \A e1 \in wlog : \A e2 \in wlog : e1.cell = e2.cell => e1.by = e2.by

C4_Witness ==
    /\ pc = "save"
    /\ mode = TBB
    /\ \E e1 \in wlog : \E e2 \in wlog :
          e1.by # e2.by /\ e1.cell[1] = e2.cell[1] /\ e1.cell[2] # e2.cell[2]
    /\ \E e1 \in wlog : \E e2 \in wlog : e1.cell[1] # e2.cell[1]

\* C5: in both modes a pixel whose ray misses every sphere is never written and
\* is background when the image is saved, and when the loops have ended a
\* pixel is written exactly if its ray hits a sphere.
C5_WrittenIffHit ==
    /\ InCall => \A c \in Cells :
          LET miss == Misses(c)
          IN /\ Written(c) => ~miss
             /\ miss => img[c] = Background
             /\ pc = "save" => (Written(c) <=> ~miss)
    /\ (pc = "idle" /\ file.by # None) =>
          \A c \in Cells : Misses(c) => file.pix[c] = Background

C5_Witness ==
    /\ pc = "save"
    /\ mode = CPU
    /\ \E c \in Cells : Written(c) /\ img[c] # Background
    /\ \E c \in Cells : ~Written(c) /\ Misses(c)

\* C6: the scan of every executed pixel body selects no sphere when none reports
\* a hit, and otherwise a sphere that reports the least distance of all that
\* report a hit, the earliest in the list among those of that distance.
C6_NearestHit ==
    \A e \in scanned :
        LET t == Answers(e.ray)
        IN /\ HitSet(t) = {} => e.nearest = NullSphere
           /\ HitSet(t) # {} => IsNearest(e.nearest, t) /\ e.z = t[e.nearest].first

C6_Witness ==
    /\ \E e \in scanned : e.nearest = 2 /\ 1 \in HitSet(Answers(e.ray))
    /\ \E e \in scanned :
          LET t == Answers(e.ray)
          IN e.nearest = 1 /\ 2 \in HitSet(t) /\ t[1].first = t[2].first

\* C7: once a pixel computation has raised an error the call never reaches the
\* save, and it ends with the exception at the caller.
C7_ErrorAborts ==
    thrown =>
        /\ pc # "save"
        /\ saveRes = None
        /\ pc = "idle" => result = "exception"

C7_Witness ==
    /\ thrown
    /\ pc = "idle"
    /\ mode = TBB
    /\ result = "exception"
    /\ width >= 2

\* C8: when the save starts every pixel body has been executed, no outer or
\* inner sub-range is pending or running, and no pixel body can run any more.
C8_SaveAfterAll ==
    pc = "save" =>
        /\ {e.px : e \in scanned} = Cells
        /\ outerPending = {}
        /\ outerRun = {}
        /\ \A i \in DOMAIN inner : inner[i].pending = {} /\ inner[i].run = {}
        /\ ~ENABLED StepTBB
        /\ ~ENABLED StepCPU

C8_Witness ==
    /\ pc = "save"
    /\ mode = TBB
    /\ width >= 2
    /\ height >= 2
    /\ {e.px : e \in scanned} = Cells

\* C9: during every render the divisor width/2 of step is nonzero.
C9_DivisorNonzero == InCall => step.den # 0

\* C10: every write went to the cell of the pixel whose ray was cast, and its
\* value is the shade of the nearest sphere of that ray at its intersection
\* point.
C10_WriteTarget ==
    InCall => \A e \in wlog :
        /\ e.cell = e.px
        /\ e.cell \in Cells
        /\ img[e.cell] = Pixel(e.color)
        /\ LET t == Answers(RayAt(e.px))
           IN \E k \in HitSet(t) :
                 /\ IsNearest(k, t)
                 /\ e.color = calcColor(t[k].second, camera.pos, k, lights)

C10_Witness ==
    /\ InCall
    /\ \E e \in wlog : e.px[1] # Len(objs) /\ e.px[1] # Len(objs) - 1
    /\ mode = TBB

====
